---- MODULE Spec2Model ----
(***************************************************************************)
(* Model of the credential store in src/auth.py (SQLite table `users`,     *)
(* password policy, PBKDF2 hashing, authenticate, bootstrap seeding).      *)
(*                                                                         *)
(* Strings are sequences of one-character strings, so that trimming and    *)
(* the regular expressions of the password policy are computed character   *)
(* by character.  A digest is the term pbkdf2(password, salt, iterations): *)
(* two digests are equal exactly when password, salt and work factor are   *)
(* equal (PBKDF2-HMAC-SHA256 taken as collision free).                     *)
(***************************************************************************)
EXTENDS Integers, Sequences, FiniteSets, TLC

VARIABLES
    users,      \* the committed rows of table users
    seq,        \* sqlite_sequence for users: the largest id ever assigned
    now,        \* the clock read by datetime('now')
    ret,        \* the last store call of the sequential caller and its outcome
    state,      \* the menus' session: state["user"], the identity logged in
    pc,         \* concurrent callers: position of each caller in create_user
    call,       \* concurrent callers: arguments and locals of each caller
    lock,       \* concurrent callers: holder of SQLite's write lock (0 = free)
    pending     \* concurrent callers: the rows each caller has inserted, not yet committed

vars == <<users, seq, now, ret, state, pc, call, lock, pending>>

(***************************************************************************)
(* Bounds of the model.                                                    *)
(***************************************************************************)
MaxId == 5          \* ids are assigned up to MaxId
NSalts == 2         \* secrets.token_bytes(16) draws from 1..NSalts
MaxTime == 1        \* the clock runs from 0 to MaxTime

Iterations == 200000

Salts == 1..NSalts

(***************************************************************************)
(* Characters and the character classes the code's regular expressions     *)
(* and str.strip() use.                                                    *)
(***************************************************************************)
Lower == {"a", "b", "c", "d", "e", "f", "g", "h", "i", "j", "k", "l", "m",
          "n", "o", "p", "q", "r", "s", "t", "u", "v", "w", "x", "y", "z"}
Upper == {"A", "B", "C", "D", "E", "F", "G", "H", "I", "J", "K", "L", "M",
          "N", "O", "P", "Q", "R", "S", "T", "U", "V", "W", "X", "Y", "Z"}
Digit == {"0", "1", "2", "3", "4", "5", "6", "7", "8", "9"}
Space == {" ", "\t", "\n", "\r"}

IsLower(c) == c \in Lower
IsUpper(c) == c \in Upper
IsDigit(c) == c \in Digit
IsSpace(c) == c \in Space
IsWord(c) == c \in Lower \cup Upper \cup Digit \cup {"_"}

\* The characters of the model in code-point order: SQLite's default BINARY
\* collation compares TEXT byte by byte (memcmp).
CodePoints ==
    <<"\t", "\n", "\r", " ", "!",
      "0", "1", "2", "3", "4", "5", "6", "7", "8", "9",
      "A", "B", "C", "D", "E", "F", "G", "H", "I", "J", "K", "L", "M",
      "N", "O", "P", "Q", "R", "S", "T", "U", "V", "W", "X", "Y", "Z",
      "_",
      "a", "b", "c", "d", "e", "f", "g", "h", "i", "j", "k", "l", "m",
      "n", "o", "p", "q", "r", "s", "t", "u", "v", "w", "x", "y", "z">>

ord(c) == CHOOSE i \in 1..Len(CodePoints) : CodePoints[i] = c

\* str.lower()
lower(s) ==
    [i \in 1..Len(s) |->
        IF IsUpper(s[i]) THEN CodePoints[ord(s[i]) + (ord("a") - ord("A"))]
        ELSE s[i]]

\* Python's None, passed where a str is expected.
NoneVal == <<"None">>

isinstance_str(v) == v # NoneVal

\* (username or "")
or_empty(v) == IF v = NoneVal THEN <<>> ELSE v

RECURSIVE lstrip(_)
lstrip(s) == IF s = <<>> THEN s
             ELSE IF IsSpace(Head(s)) THEN lstrip(Tail(s)) ELSE s

RECURSIVE rstrip(_)
rstrip(s) == IF s = <<>> THEN s
             ELSE IF IsSpace(s[Len(s)]) THEN rstrip(SubSeq(s, 1, Len(s) - 1)) ELSE s

strip(s) == rstrip(lstrip(s))

\* re.search(r"[a-z]", s), re.search(r"[A-Z]", s), re.search(r"\d", s)
search_lower(s) == \E i \in 1..Len(s) : IsLower(s[i])
search_upper(s) == \E i \in 1..Len(s) : IsUpper(s[i])
search_digit(s) == \E i \in 1..Len(s) : IsDigit(s[i])

\* re.search(r"[^\w\s]", s)
search_special(s) == \E i \in 1..Len(s) : ~IsWord(s[i]) /\ ~IsSpace(s[i])

(***************************************************************************)
(* Return values.                                                          *)
(***************************************************************************)
None == [kind |-> "None"]
Bool(b) == [kind |-> "bool", val |-> b]
User(row) == [kind |-> "User", id |-> row.id, username |-> row.username,
              is_admin |-> row.is_admin]

NoError == "none"

(***************************************************************************)
(* Password policy and hashing.                                            *)
(***************************************************************************)
validate_password_rules(password) ==
    IF ~isinstance_str(password)
      THEN [ok |-> FALSE, msg |-> "Password must be text."]
    ELSE IF Len(password) < 8
      THEN [ok |-> FALSE, msg |-> "Password must be at least 8 characters."]
    ELSE IF ~search_lower(password)
      THEN [ok |-> FALSE, msg |-> "Password must contain at least one lowercase letter."]
    ELSE IF ~search_upper(password)
      THEN [ok |-> FALSE, msg |-> "Password must contain at least one uppercase letter."]
    ELSE IF ~search_digit(password)
      THEN [ok |-> FALSE, msg |-> "Password must contain at least one digit."]
    ELSE IF ~search_special(password)
      THEN [ok |-> FALSE, msg |-> "Password must contain at least one special character (e.g., !@#$%)."]
    ELSE [ok |-> TRUE, msg |-> "OK"]

\* _hash_password raises ValueError for these inputs.
hash_password_raises(password) == ~isinstance_str(password) \/ password = <<>>

\* _hash_password: the digest of a password it accepts.
hash_password(password, salt) ==
    [kdf |-> "pbkdf2_hmac_sha256", password |-> password, salt |-> salt,
     iterations |-> Iterations]

\* secrets.compare_digest
compare_digest(a, b) == a = b

(***************************************************************************)
(* The table.  A row is [id, username, salt, pw_hash, is_admin,            *)
(* created_at]; db is the pair [users, seq] an operation reads and writes. *)
(***************************************************************************)
\* SELECT ... WHERE username = ? with the column declared COLLATE NOCASE.
select_by_username_nocase(tbl, username) ==
    {r \in tbl : lower(r.username) = lower(username)}

\* SELECT ... FROM users WHERE username = ?  (BINARY collation: exact match)
select_by_username(tbl, username) == {r \in tbl : r.username = username}

\* cursor.fetchone()
fetchone(rows) == CHOOSE r \in rows : TRUE

\* Mutant of sql_insert: the username column has no UNIQUE constraint.
sql_insert_no_unique(db, username, salt, pw_hash, is_admin, clock) ==
    [raised |-> NoError, msg |-> "",
     users |-> db.users \cup
               {[id |-> db.seq + 1, username |-> username, salt |-> salt,
                 pw_hash |-> pw_hash, is_admin |-> is_admin,
                 created_at |-> clock]},
     seq |-> db.seq + 1]

\* INSERT into a table declared without AUTOINCREMENT: the new id is one more
\* than the largest id in the table now.
sql_insert_max_rowid(db, username, salt, pw_hash, is_admin, clock) ==
    IF select_by_username(db.users, username) # {}
      THEN [raised |-> "IntegrityError",
            msg |-> "UNIQUE constraint failed: users.username",
            users |-> db.users, seq |-> db.seq]
      ELSE [raised |-> NoError, msg |-> "",
            users |-> db.users \cup
                      {[id |-> 1 + Cardinality({i \in 1..db.seq :
                                  \E r \in db.users : r.id >= i}),
                        username |-> username, salt |-> salt,
                        pw_hash |-> pw_hash, is_admin |-> is_admin,
                        created_at |-> clock]},
            seq |-> db.seq + 1]

\* INSERT INTO users (...) VALUES (...): username is UNIQUE, id is
\* INTEGER PRIMARY KEY AUTOINCREMENT.  A failed statement changes nothing.
sql_insert(db, username, salt, pw_hash, is_admin, clock) ==
    IF select_by_username(db.users, username) # {}
      THEN [raised |-> "IntegrityError",
            msg |-> "UNIQUE constraint failed: users.username",
            users |-> db.users, seq |-> db.seq]
      ELSE [raised |-> NoError, msg |-> "",
            users |-> db.users \cup
                      {[id |-> db.seq + 1, username |-> username, salt |-> salt,
                        pw_hash |-> pw_hash, is_admin |-> is_admin,
                        created_at |-> clock]},
            seq |-> db.seq + 1]

\* Mutant of sql_delete: the DELETE is never committed.
sql_delete_uncommitted(tbl, username) == tbl

\* DELETE FROM users WHERE username = ?
sql_delete(tbl, username) == {r \in tbl : r.username # username}

\* Mutant of sql_update_password: the UPDATE sets the salt and not the hash.
sql_update_salt_only(tbl, username, salt, pw_hash) ==
    {IF r.username = username THEN [r EXCEPT !.salt = salt] ELSE r : r \in tbl}

\* UPDATE users SET salt = ?, pw_hash = ? without the WHERE clause.
sql_update_every_row(tbl, username, salt, pw_hash) ==
    {[r EXCEPT !.salt = salt, !.pw_hash = pw_hash] : r \in tbl}

\* UPDATE users SET salt = ?, pw_hash = ? WHERE username = ?
sql_update_password(tbl, username, salt, pw_hash) ==
    {IF r.username = username
       THEN [r EXCEPT !.salt = salt, !.pw_hash = pw_hash]
       ELSE r : r \in tbl}

Unchanged(db, exc, text) ==
    [raised |-> exc, msg |-> text, users |-> db.users, seq |-> db.seq]

\* Mutant of create_user: the row is inserted under the username as typed.
create_user_untrimmed(db, username, password, is_admin, enforce_rules, salt, clock) ==
    LET name == strip(or_empty(username))
        v == validate_password_rules(password)
    IN  IF name = <<>>
          THEN Unchanged(db, "ValueError", "Username cannot be empty.")
        ELSE IF enforce_rules /\ ~v.ok
          THEN Unchanged(db, "ValueError", v.msg)
        ELSE IF hash_password_raises(password)
          THEN Unchanged(db, "ValueError", "Password must be a non-empty string.")
        ELSE sql_insert(db, or_empty(username), salt,
                        hash_password(password, salt), is_admin, clock)

\* create_user that runs its input checks after the INSERT has been committed.
create_user_checks_late(db, username, password, is_admin, enforce_rules, salt, clock) ==
    LET name == strip(or_empty(username))
        v == validate_password_rules(password)
        ins == sql_insert(db, name, salt, hash_password(password, salt),
                          is_admin, clock)
    IN  IF hash_password_raises(password)
          THEN Unchanged(db, "ValueError", "Password must be a non-empty string.")
        ELSE IF ins.raised # NoError
          THEN ins
        ELSE IF name = <<>>
          THEN [ins EXCEPT !.raised = "ValueError", !.msg = "Username cannot be empty."]
        ELSE IF enforce_rules /\ ~v.ok
          THEN [ins EXCEPT !.raised = "ValueError", !.msg = v.msg]
        ELSE ins

create_user(db, username, password, is_admin, enforce_rules, salt, clock) ==
    LET name == strip(or_empty(username))
        v == validate_password_rules(password)
    IN  IF name = <<>>
          THEN Unchanged(db, "ValueError", "Username cannot be empty.")
        ELSE IF enforce_rules /\ ~v.ok
          THEN Unchanged(db, "ValueError", v.msg)
        ELSE IF hash_password_raises(password)
          THEN Unchanged(db, "ValueError", "Password must be a non-empty string.")
        ELSE sql_insert(db, name, salt, hash_password(password, salt),
                        is_admin, clock)

\* Mutant of delete_user: the WHERE clause is given the username as typed.
delete_user_untrimmed(tbl, username) ==
    LET name == strip(or_empty(username))
    IN  IF name = <<>>
          THEN [result |-> Bool(FALSE), users |-> tbl]
          ELSE [result |-> Bool(select_by_username(tbl, or_empty(username)) # {}),
                users |-> sql_delete(tbl, or_empty(username))]

delete_user(tbl, username) ==
    LET name == strip(or_empty(username))
    IN  IF name = <<>>
          THEN [result |-> Bool(FALSE), users |-> tbl]
          ELSE [result |-> Bool(select_by_username(tbl, name) # {}),
                users |-> sql_delete(tbl, name)]

\* a < b under the BINARY collation.
RECURSIVE binary_less(_, _)
binary_less(a, b) ==
    IF b = <<>> THEN FALSE
    ELSE IF a = <<>> THEN TRUE
    ELSE IF Head(a) = Head(b) THEN binary_less(Tail(a), Tail(b))
    ELSE ord(Head(a)) < ord(Head(b))

\* ORDER BY is_admin DESC, username ASC: row r sorts before row o.
sorts_before(r, o) ==
    \/ r.is_admin /\ ~o.is_admin
    \/ r.is_admin = o.is_admin /\ binary_less(r.username, o.username)

RECURSIVE order_by(_)
order_by(rows) ==
    IF rows = {} THEN <<>>
    ELSE LET first == CHOOSE r \in rows :
                        \A o \in rows \ {r} : sorts_before(r, o)
         IN  <<first>> \o order_by(rows \ {first})

\* The list comprehension of list_users over fetched rows.
as_pairs(rows) == [i \in 1..Len(rows) |-> <<rows[i].username, rows[i].is_admin>>]

\* list_users with ORDER BY is_admin ASC: the non-admin accounts come first.
list_users_admins_last(tbl) ==
    as_pairs(order_by({r \in tbl : ~r.is_admin}) \o order_by({r \in tbl : r.is_admin}))

list_users(tbl) == as_pairs(order_by(tbl))

get_user_by_username(tbl, username) ==
    LET name == strip(or_empty(username))
        rows == select_by_username(tbl, name)
    IN  IF name = <<>> THEN None
        ELSE IF rows = {} THEN None
        ELSE User(fetchone(rows))

\* Mutant of authenticate: the ValueError of _hash_password is not caught.
authenticate_no_except(tbl, username, password) ==
    LET name == strip(or_empty(username))
        rows == select_by_username(tbl, name)
        row == fetchone(rows)
        Outcome(res, exc, h, c) ==
            [result |-> res, raised |-> exc, hashes |-> h, compares |-> c]
    IN  IF name = <<>> THEN Outcome(None, NoError, 0, 0)
        ELSE IF rows = {} THEN Outcome(None, NoError, 0, 0)
        ELSE IF hash_password_raises(password)
          THEN Outcome(None, "ValueError", 0, 0)
        ELSE IF compare_digest(hash_password(password, row.salt), row.pw_hash)
          THEN Outcome(User(row), NoError, 1, 1)
        ELSE Outcome(None, NoError, 1, 1)

\* authenticate: its result, and the number of PBKDF2 computations and of
\* digest comparisons the call performed.
authenticate(tbl, username, password) ==
    LET name == strip(or_empty(username))
        rows == select_by_username(tbl, name)
        row == fetchone(rows)
        Outcome(res, exc, h, c) ==
            [result |-> res, raised |-> exc, hashes |-> h, compares |-> c]
    IN  IF name = <<>> THEN Outcome(None, NoError, 0, 0)
        ELSE IF rows = {} THEN Outcome(None, NoError, 0, 0)
        ELSE IF hash_password_raises(password)
          THEN Outcome(None, NoError, 0, 0)     \* except ValueError: return None
        ELSE IF compare_digest(hash_password(password, row.salt), row.pw_hash)
          THEN Outcome(User(row), NoError, 1, 1)
        ELSE Outcome(None, NoError, 1, 1)

\* set_password that hashes the new password under the salt the row has.
set_password_keeps_salt(tbl, username, new_password, salt) ==
    LET name == strip(or_empty(username))
        v == validate_password_rules(new_password)
        rows == select_by_username(tbl, name)
        old == fetchone(rows).salt
    IN  IF name = <<>>
          THEN [raised |-> NoError, msg |-> "", result |-> Bool(FALSE), users |-> tbl]
        ELSE IF ~v.ok
          THEN [raised |-> "ValueError", msg |-> v.msg, result |-> None, users |-> tbl]
        ELSE IF rows = {}
          THEN [raised |-> NoError, msg |-> "", result |-> Bool(FALSE), users |-> tbl]
        ELSE [raised |-> NoError, msg |-> "", result |-> Bool(TRUE),
              users |-> sql_update_password(tbl, name, old,
                                            hash_password(new_password, old))]

\* set_password without the policy check: only _hash_password can refuse.
set_password_no_policy(tbl, username, new_password, salt) ==
    LET name == strip(or_empty(username))
    IN  IF name = <<>>
          THEN [raised |-> NoError, msg |-> "", result |-> Bool(FALSE), users |-> tbl]
        ELSE IF hash_password_raises(new_password)
          THEN [raised |-> "ValueError", msg |-> "Password must be a non-empty string.",
                result |-> None, users |-> tbl]
        ELSE [raised |-> NoError, msg |-> "",
              result |-> Bool(select_by_username(tbl, name) # {}),
              users |-> sql_update_password(tbl, name, salt,
                                            hash_password(new_password, salt))]

set_password(tbl, username, new_password, salt) ==
    LET name == strip(or_empty(username))
        v == validate_password_rules(new_password)
    IN  IF name = <<>>
          THEN [raised |-> NoError, msg |-> "", result |-> Bool(FALSE), users |-> tbl]
        ELSE IF ~v.ok
          THEN [raised |-> "ValueError", msg |-> v.msg, result |-> None, users |-> tbl]
        ELSE [raised |-> NoError, msg |-> "",
              result |-> Bool(select_by_username(tbl, name) # {}),
              users |-> sql_update_password(tbl, name, salt,
                                            hash_password(new_password, salt))]

(***************************************************************************)
(* Bootstrap.                                                              *)
(***************************************************************************)
admin == <<"a", "d", "m", "i", "n">>
student1 == <<"s", "t", "u", "d", "e", "n", "t", "1">>
student2 == <<"s", "t", "u", "d", "e", "n", "t", "2">>
guest == <<"g", "u", "e", "s", "t">>

Admin123 == <<"A", "d", "m", "i", "n", "1", "2", "3", "!">>
Student123 == <<"S", "t", "u", "d", "e", "n", "t", "1", "2", "3", "!">>
Guest123 == <<"G", "u", "e", "s", "t", "1", "2", "3", "!">>

seed_users ==
    << [username |-> admin, password |-> Admin123, is_admin |-> TRUE],
       [username |-> student1, password |-> Student123, is_admin |-> FALSE],
       [username |-> student2, password |-> Student123, is_admin |-> FALSE],
       [username |-> guest, password |-> Guest123, is_admin |-> FALSE] >>

\* Mutant of seed_loop: a seed account that exists is given its seed password
\* again.
RECURSIVE seed_loop_reset(_, _, _, _)
seed_loop_reset(db, i, salts, clock) ==
    IF i > Len(seed_users) THEN Unchanged(db, NoError, "")
    ELSE LET s == seed_users[i]
             rows == select_by_username(db.users, s.username)
         IN  IF rows = {}
               THEN LET r == create_user(db, s.username, s.password, s.is_admin,
                                         FALSE, salts[i], clock)
                    IN  IF r.raised # NoError THEN r
                        ELSE seed_loop_reset([users |-> r.users, seq |-> r.seq],
                                             i + 1, salts, clock)
               ELSE seed_loop_reset(
                        [users |-> sql_update_password(
                                       db.users, s.username, fetchone(rows).salt,
                                       hash_password(s.password, fetchone(rows).salt)),
                         seq |-> db.seq],
                        i + 1, salts, clock)

\* for username, password, is_admin in seed_users: ... from the i-th seed on;
\* salts[i] is the salt token_bytes returns when the i-th seed is created.
RECURSIVE seed_loop(_, _, _, _)
seed_loop(db, i, salts, clock) ==
    IF i > Len(seed_users) THEN Unchanged(db, NoError, "")
    ELSE LET s == seed_users[i]
         IN  IF get_user_by_username(db.users, s.username) = None
               THEN LET r == create_user(db, s.username, s.password, s.is_admin,
                                         FALSE, salts[i], clock)
                    IN  IF r.raised # NoError THEN r
                        ELSE seed_loop([users |-> r.users, seq |-> r.seq],
                                       i + 1, salts, clock)
               ELSE seed_loop(db, i + 1, salts, clock)

\* Mutant of init_db: the table is dropped and created anew before seeding.
init_db_recreate(db, salts, clock) ==
    seed_loop([users |-> {}, seq |-> db.seq], 1, salts, clock)

\* init_db after CREATE TABLE IF NOT EXISTS, which leaves existing rows alone.
init_db(db, salts, clock) == seed_loop(db, 1, salts, clock)

(***************************************************************************)
(* The sequential caller: one store call at a time, as the menus make them.*)
(***************************************************************************)
Valid123 == <<"V", "a", "l", "i", "d", "1", "2", "3", "!">>

\* A password whose only character outside letters and digits is "_".
Valid_123 == <<"V", "a", "l", "i", "d", "_", "1", "2", "3">>

UsernameInputs ==
    {<<>>, <<" ">>, <<" ">> \o admin \o <<"\t">>, <<"A", "d", "m", "i", "n">>}

PasswordInputs == {NoneVal, <<>>, Valid123, Admin123}

DB == [users |-> users, seq |-> seq]

\* What the caller observes of a call: the operation, its result, the
\* exception it raised, and the work authenticate did.
Ret(op, result, raised, hashes, compares) ==
    [op |-> op, result |-> result, raised |-> raised, hashes |-> hashes,
     compares |-> compares]

SeedsMissing(tbl) ==
    {i \in 1..Len(seed_users) :
        select_by_username(tbl, seed_users[i].username) = {}}

SeqUnchanged == UNCHANGED <<state, pc, call, lock, pending>>

\* The database as the first init_db of the process leaves it, the table
\* created empty and every seed inserted (each token_bytes call returning 1).
Bootstrapped ==
    init_db([users |-> {}, seq |-> 0], [i \in 1..Len(seed_users) |-> 1], 0)

\* The salts token_bytes returns to create_user and to set_password: the
\* calls that raise before line 119 / line 191 draw none.
SaltsDrawn(username, password) ==
    IF strip(or_empty(username)) # <<>> /\ validate_password_rules(password).ok
      THEN Salts ELSE {0}

\* The process has bootstrapped its database (init_db) and shows its menus.
Init ==
    /\ users = Bootstrapped.users
    /\ seq = Bootstrapped.seq
    /\ now = 0
    /\ ret = Ret("init_db", None, Bootstrapped.raised, 0, 0)
    /\ state = [user |-> None]
    /\ pc = <<>>
    /\ call = <<>>
    /\ lock = 0
    /\ pending = <<>>

InitDb ==
    /\ \E salts \in [SeedsMissing(users) -> Salts] :
         LET r == init_db(DB, salts, now)
         IN  /\ r.seq <= MaxId
             /\ users' = r.users
             /\ seq' = r.seq
             /\ ret' = Ret("init_db", None, r.raised, 0, 0)
    /\ UNCHANGED now
    /\ SeqUnchanged

CreateUser ==
    /\ \E u \in UsernameInputs, p \in PasswordInputs, a \in BOOLEAN :
       \E s \in SaltsDrawn(u, p) :
         LET r == create_user(DB, u, p, a, TRUE, s, now)
         IN  /\ r.seq <= MaxId
             /\ users' = r.users
             /\ seq' = r.seq
             /\ ret' = Ret("create_user", None, r.raised, 0, 0)
    /\ UNCHANGED now
    /\ SeqUnchanged

DeleteUser ==
    /\ \E u \in UsernameInputs :
         LET r == delete_user(users, u)
         IN  /\ users' = r.users
             /\ ret' = Ret("delete_user", r.result, NoError, 0, 0)
    /\ UNCHANGED <<seq, now>>
    /\ SeqUnchanged

GetUserByUsername ==
    /\ \E u \in UsernameInputs :
         ret' = Ret("get_user_by_username", get_user_by_username(users, u),
                    NoError, 0, 0)
    /\ UNCHANGED <<users, seq, now>>
    /\ SeqUnchanged

ListUsers ==
    /\ ret' = Ret("list_users", [kind |-> "List", rows |-> list_users(users)],
                  NoError, 0, 0)
    /\ UNCHANGED <<users, seq, now>>
    /\ SeqUnchanged

Authenticate ==
    /\ \E u \in UsernameInputs, p \in PasswordInputs :
         LET r == authenticate(users, u, p)
         IN  ret' = Ret("authenticate", r.result, r.raised, r.hashes, r.compares)
    /\ UNCHANGED <<users, seq, now>>
    /\ SeqUnchanged

SetPassword ==
    /\ \E u \in UsernameInputs, p \in PasswordInputs :
       \E s \in SaltsDrawn(u, p) :
         LET r == set_password(users, u, p, s)
         IN  /\ users' = r.users
             /\ ret' = Ret("set_password", r.result, r.raised, 0, 0)
    /\ UNCHANGED <<seq, now>>
    /\ SeqUnchanged

\* Time passes between calls.
Tick ==
    /\ now < MaxTime
    /\ now' = now + 1
    /\ UNCHANGED <<users, seq, ret>>
    /\ SeqUnchanged

\* The store calls, in any order, within one reading of the clock.
Next ==
    \/ InitDb
    \/ CreateUser
    \/ DeleteUser
    \/ GetUserByUsername
    \/ ListUsers
    \/ Authenticate
    \/ SetPassword

Spec == Init /\ [][Next]_vars

\* The store calls with time passing between them.
NextClock == Next \/ Tick

SpecClock == Init /\ [][NextClock]_vars

(***************************************************************************)
(* Vocabulary of the properties.                                           *)
(***************************************************************************)
AllPasswords == PasswordInputs \cup {Student123, Guest123}

Exists(tbl, username) == select_by_username(tbl, strip(or_empty(username))) # {}

Succeeds(tbl, username, password) ==
    authenticate(tbl, username, password).result.kind = "User"

\* What a caller sees of an authenticate call: what it returned and raised.
Observable(o) == [result |-> o.result, raised |-> o.raised]

\* _hash_password accepts the password, and so does the policy if enforced.
Accepted(password, enforce_rules) ==
    /\ ~hash_password_raises(password)
    /\ enforce_rules => validate_password_rules(password).ok

\* The step is the call create_user(u, p, a) drawing salt s.
IsCreate(u, p, a, s) ==
    LET r == create_user(DB, u, p, a, TRUE, s, now)
    IN  ret'.op = "create_user" /\ ret'.raised = r.raised
        /\ users' = r.users /\ seq' = r.seq

\* The step is the call set_password(u, p) drawing salt s.
IsSetPassword(u, p, s) ==
    LET r == set_password(users, u, p, s)
    IN  ret'.op = "set_password" /\ ret'.raised = r.raised
        /\ ret'.result = r.result /\ users' = r.users

\* The step is the call delete_user(u).
IsDelete(u) ==
    LET r == delete_user(users, u)
    IN  ret'.op = "delete_user" /\ ret'.result = r.result /\ users' = r.users

(***************************************************************************)
(* C1.  Whenever create_user returns without error, authenticate with the  *)
(* same username and password succeeds at once and returns the User with   *)
(* the trimmed username and the is_admin flag given to create_user.  This  *)
(* covers the seed accounts init_db creates.                               *)
(***************************************************************************)
C1_CreateThenAuthenticate ==
    [][ /\ (ret'.op = "create_user" /\ ret'.raised = NoError) =>
             \A u \in UsernameInputs, p \in PasswordInputs, a \in BOOLEAN,
                s \in Salts :
                IsCreate(u, p, a, s) =>
                    LET o == authenticate(users', u, p)
                    IN  /\ o.result.kind = "User"
                        /\ o.result.username = strip(or_empty(u))
                        /\ o.result.is_admin = a
                        /\ o.result.id = seq'
        /\ (ret'.op = "init_db" /\ ret'.raised = NoError) =>
             \A i \in SeedsMissing(users) :
                LET o == authenticate(users', seed_users[i].username,
                                      seed_users[i].password)
                IN  /\ o.result.kind = "User"
                    /\ o.result.username = seed_users[i].username
                    /\ o.result.is_admin = seed_users[i].is_admin
      ]_vars

C1_Witness ==
    /\ ret.op = "create_user"
    /\ ret.raised = NoError
    /\ \E r \in users : r.id = seq /\ r.username = <<"A", "d", "m", "i", "n">>
                         /\ r.is_admin

(***************************************************************************)
(* C2.  After set_password(u, newpw) returns true, authenticate(u, newpw)  *)
(* succeeds, and authenticate(u, oldpw) fails for every password oldpw     *)
(* that was valid before and differs from newpw.                           *)
(***************************************************************************)
C2_SetPasswordRoundTrip ==
    [][ (ret'.op = "set_password" /\ ret'.result = Bool(TRUE)) =>
           \A u \in UsernameInputs, newpw \in PasswordInputs, s \in Salts :
              IsSetPassword(u, newpw, s) =>
                 /\ Succeeds(users', u, newpw)
                 /\ \A oldpw \in AllPasswords :
                       (Succeeds(users, u, oldpw) /\ oldpw # newpw) =>
                           ~Succeeds(users', u, oldpw)
      ]_vars

\* C2 as stated: authenticate(u, oldpw) fails after every set_password.
C2_Original ==
    [][ (ret'.op = "set_password" /\ ret'.result = Bool(TRUE)) =>
           \A u \in UsernameInputs, newpw \in PasswordInputs, s \in Salts :
              IsSetPassword(u, newpw, s) =>
                 /\ Succeeds(users', u, newpw)
                 /\ \A oldpw \in AllPasswords :
                       Succeeds(users, u, oldpw) => ~Succeeds(users', u, oldpw)
      ]_vars

C2_Witness ==
    /\ ret.op = "set_password"
    /\ ret.result = Bool(TRUE)
    /\ Succeeds(users, admin, Valid123)
    /\ ~Succeeds(users, admin, Admin123)

(***************************************************************************)
(* C3.  A create_user call whose trimmed username already exists fails     *)
(* and leaves the table and the id sequence unchanged, whatever the        *)
(* password and the flag; the failure is the uniqueness error when the     *)
(* password passes validation and the validation error when it does not.   *)
(* No state holds two rows with one username.                              *)
(***************************************************************************)
UniqueUsernames ==
    \A r1 \in users, r2 \in users : r1.username = r2.username => r1 = r2

C3_DuplicateCreateFails ==
    /\ UniqueUsernames
    /\ \A u \in UsernameInputs, p \in PasswordInputs, a \in BOOLEAN,
          e \in BOOLEAN, s \in Salts :
          Exists(users, u) =>
              LET r == create_user(DB, u, p, a, e, s, now)
              IN  /\ r.raised = IF Accepted(p, e) THEN "IntegrityError"
                                 ELSE "ValueError"
                  /\ r.users = users
                  /\ r.seq = seq

\* C3 as stated: the failure is the uniqueness error whatever the password.
C3_Original ==
    /\ UniqueUsernames
    /\ \A u \in UsernameInputs, p \in PasswordInputs, a \in BOOLEAN,
          s \in Salts :
          Exists(users, u) =>
              LET r == create_user(DB, u, p, a, TRUE, s, now)
              IN  /\ r.raised = "IntegrityError"
                  /\ r.users = users
                  /\ r.seq = seq

C3_Witness ==
    /\ ret.op = "create_user"
    /\ ret.raised = "IntegrityError"
    /\ Cardinality(users) > Len(seed_users)

(***************************************************************************)
(* C4.  A failing authenticate call looks the same to its caller whether   *)
(* the username is unknown or the password is wrong: it returns None,      *)
(* raises nothing and changes no row, for every username and password,     *)
(* the empty password included.                                            *)
(***************************************************************************)
\* What callers see when the username is unknown, and when it is known and
\* the password is wrong.
UnknownUserOutcomes ==
    {Observable(authenticate(users, u, p)) :
        u \in {x \in UsernameInputs : ~Exists(users, x)}, p \in AllPasswords}

WrongPasswordOutcomes ==
    {Observable(o) :
        o \in {x \in {authenticate(users, u, p) :
                        u \in {y \in UsernameInputs : Exists(users, y)},
                        p \in AllPasswords} : x.result.kind # "User"}}

FailureOutcomesAgree ==
    \A o \in UnknownUserOutcomes \cup WrongPasswordOutcomes :
        o = [result |-> None, raised |-> NoError]

C4_FailuresIndistinguishable ==
    /\ []FailureOutcomesAgree
    /\ [][ret'.op = "authenticate" => UNCHANGED <<users, seq>>]_vars

\* authenticate failed for an existing account, while some username is unknown.
C4_Witness ==
    /\ ret.op = "authenticate"
    /\ ret.result = None
    /\ ret.compares = 1
    /\ Exists(users, admin)
    /\ ~Succeeds(users, admin, <<>>)
    /\ \E u \in UsernameInputs : strip(u) # <<>> /\ ~Exists(users, u)

(***************************************************************************)
(* C5.  A failing authenticate call computes as many password hashes and   *)
(* compares as many digests for an unknown username as for a known         *)
(* username with a wrong password.                                         *)
(***************************************************************************)
C5_SameWorkOnFailure ==
    \A u1 \in UsernameInputs, u2 \in UsernameInputs,
       p1 \in AllPasswords, p2 \in AllPasswords :
       (~Exists(users, u1) /\ Exists(users, u2) /\ ~Succeeds(users, u2, p2)) =>
           /\ authenticate(users, u1, p1).hashes
                 = authenticate(users, u2, p2).hashes
           /\ authenticate(users, u1, p1).compares
                 = authenticate(users, u2, p2).compares

(***************************************************************************)
(* C6.  init_db is idempotent: run again right after a completed init_db,  *)
(* whatever salts and clock it would draw, it raises nothing and returns   *)
(* the same rows and the same id sequence.                                 *)
(***************************************************************************)
C6_InitDbIdempotent ==
    (ret.op = "init_db" /\ ret.raised = NoError) =>
        \A salts \in [1..Len(seed_users) -> Salts], clock \in 0..MaxTime :
            init_db(DB, salts, clock) = Unchanged(DB, NoError, "")

\* init_db completed on a table that had been changed since the first bootstrap.
C6_Witness ==
    /\ ret.op = "init_db"
    /\ ret.raised = NoError
    /\ seq > Len(seed_users)
    /\ Cardinality(users) = Len(seed_users)

(***************************************************************************)
(* C7.  init_db keeps every existing row as it is, inserts rows only for   *)
(* seed usernames that had no row, and leaves all four seed usernames      *)
(* present.                                                                *)
(***************************************************************************)
SeedNames == {seed_users[i].username : i \in 1..Len(seed_users)}

C7_InitDbKeepsRows ==
    [][ ret'.op = "init_db" =>
          /\ ret'.raised = NoError
          /\ users \subseteq users'
          /\ \A r \in users' \ users :
                r.username \in SeedNames /\ ~Exists(users, r.username)
          /\ \A n \in SeedNames : Exists(users', n)
      ]_vars

\* init_db ran on a table where the seed admin had changed its password.
C7_Witness ==
    /\ ret.op = "init_db"
    /\ Succeeds(users, admin, Valid123)
    /\ ~Succeeds(users, admin, Admin123)

(***************************************************************************)
(* C8.  delete_user returns true exactly when a row with the trimmed       *)
(* username exists; it then removes that row and no other.  Otherwise (an  *)
(* unknown or empty username) it returns false and leaves the table as it  *)
(* is.  It raises in neither case.                                         *)
(***************************************************************************)
C8_DeleteUser ==
    \A u \in UsernameInputs :
        LET r == delete_user(users, u)
            rows == {x \in users : x.username = strip(u) /\ strip(u) # <<>>}
        IN  /\ r.result = Bool(rows # {})
            /\ r.users = users \ rows
            /\ Cardinality(rows) <= 1
            /\ rows = {} => r.users = users

\* delete_user has removed the row of admin.
C8_Witness ==
    /\ ret.op = "delete_user"
    /\ ret.result = Bool(TRUE)
    /\ ~Exists(users, admin)
    /\ users # {}

(***************************************************************************)
(* C9.  After delete_user(u) returns true, authenticate(u, p) returns None *)
(* for every password p, the one valid before the deletion included, and   *)
(* get_user_by_username(u) returns None; and a username that has no row    *)
(* stays that way through every call other than create_user and init_db.   *)
(***************************************************************************)
Gone(tbl, u) ==
    /\ get_user_by_username(tbl, u) = None
    /\ \A p \in AllPasswords : authenticate(tbl, u, p).result = None

C9_DeletedStaysGone ==
    [][ /\ (ret'.op = "delete_user" /\ ret'.result = Bool(TRUE)) =>
             \A u \in UsernameInputs : IsDelete(u) => Gone(users', u)
        /\ (ret'.op \notin {"create_user", "init_db"} /\ users' # users) =>
             \A u \in UsernameInputs : Gone(users, u) => Gone(users', u)
      ]_vars

\* admin was deleted, and a later authenticate for admin returned None.
C9_Witness ==
    /\ ret.op = "authenticate"
    /\ ret.result = None
    /\ ret.hashes = 0
    /\ ~Exists(users, admin)
    /\ seq >= Len(seed_users)
    /\ Cardinality(users) = Len(seed_users)

(***************************************************************************)
(* Concurrent callers of create_user, each on its own connection.  A      *)
(* caller runs lines 111-117 (trim and validate), 119-120 (salt and       *)
(* hash), 121-125 (INSERT, which takes SQLite's write lock and checks the  *)
(* UNIQUE constraint against the committed rows) and 126 (COMMIT, which    *)
(* publishes the row and releases the lock).  A caller whose INSERT finds  *)
(* the lock taken waits for it.                                            *)
(***************************************************************************)
Callers == {1, 2}

ConcUsernames ==
    {<<" ">> \o admin \o <<"\t">>, <<"A", "d", "m", "i", "n">>,
     <<"A", "d", "m", "i", "n", " ">>}

ConcPasswords == {<<>>, Valid123}

\* Mutant of write_lock_free: writers do not exclude each other.
write_lock_ignored(holder) == TRUE

\* The connection may write: no other connection holds the write lock.
write_lock_free(holder) == holder = 0

Idle == [username |-> <<>>, password |-> <<>>, is_admin |-> FALSE, salt |-> 0,
         raised |-> NoError]

InitConc ==
    /\ users = Bootstrapped.users
    /\ seq = Bootstrapped.seq
    /\ now = 0
    /\ ret = Ret("init_db", None, Bootstrapped.raised, 0, 0)
    /\ pc = [c \in Callers |-> "idle"]
    /\ call = [c \in Callers |-> Idle]
    /\ lock = 0
    /\ pending = [c \in Callers |-> {}]
    /\ state = [user |-> None]

\* Lines 111-117: the call begins; trimming and validation touch no storage.
Validate(c) ==
    /\ pc[c] = "idle"
    /\ \E u \in ConcUsernames, p \in ConcPasswords, a \in BOOLEAN :
         LET name == strip(or_empty(u))
             v == validate_password_rules(p)
             exc == IF name = <<>> \/ ~v.ok THEN "ValueError" ELSE NoError
         IN  /\ call' = [call EXCEPT ![c] =
                            [username |-> name, password |-> p, is_admin |-> a,
                             salt |-> 0, raised |-> exc]]
             /\ pc' = [pc EXCEPT ![c] = IF exc = NoError THEN "hash" ELSE "done"]
    /\ UNCHANGED <<users, seq, now, ret, state, lock, pending>>

\* Lines 119-120.
Hash(c) ==
    /\ pc[c] = "hash"
    /\ \E s \in Salts :
         /\ call' = [call EXCEPT ![c].salt = s,
                                 ![c].raised = IF hash_password_raises(call[c].password)
                                                 THEN "ValueError" ELSE NoError]
         /\ pc' = [pc EXCEPT ![c] = IF hash_password_raises(call[c].password)
                                       THEN "done" ELSE "insert"]
    /\ UNCHANGED <<users, seq, now, ret, state, lock, pending>>

\* Lines 121-125: conn.execute(INSERT ...).
Insert(c) ==
    /\ pc[c] = "insert"
    /\ write_lock_free(lock)
    /\ LET r == sql_insert(DB, call[c].username, call[c].salt,
                           hash_password(call[c].password, call[c].salt),
                           call[c].is_admin, now)
       IN  /\ r.seq <= MaxId
           /\ IF r.raised = NoError
                 THEN /\ pending' = [pending EXCEPT ![c] = r.users \ users]
                      /\ lock' = c
                      /\ pc' = [pc EXCEPT ![c] = "commit"]
                      /\ UNCHANGED call
                 ELSE /\ call' = [call EXCEPT ![c].raised = r.raised]
                      /\ pc' = [pc EXCEPT ![c] = "done"]
                      /\ UNCHANGED <<lock, pending>>
    /\ UNCHANGED <<users, seq, now, ret, state>>

\* Line 126: conn.commit().
Commit(c) ==
    /\ pc[c] = "commit"
    /\ users' = users \cup pending[c]
    /\ seq' = seq + Cardinality(pending[c])
    /\ pending' = [pending EXCEPT ![c] = {}]
    /\ lock' = 0
    /\ pc' = [pc EXCEPT ![c] = "done"]
    /\ UNCHANGED <<now, ret, state, call>>

NextConc == \E c \in Callers : Validate(c) \/ Hash(c) \/ Insert(c) \/ Commit(c)

SpecConc == InitConc /\ [][NextConc]_vars

(***************************************************************************)
(* C10.  Two create_user calls for the same username running concurrently, *)
(* both with a password that passes validation, on a table without that    *)
(* username: once both have returned, exactly one has succeeded and the    *)
(* other has failed with the uniqueness error.  At no point does the table *)
(* hold two rows for one username.                                         *)
(***************************************************************************)
BothDone == \A c \in Callers : pc[c] = "done"

SameUsername == call[1].username = call[2].username

BothValid == \A c \in Callers : call[c].raised # "ValueError"

C10_ConcurrentCreate ==
    /\ UniqueUsernames
    /\ (BothDone /\ SameUsername /\ BothValid
          /\ call[1].username \notin SeedNames) =>
            /\ \E c \in Callers : call[c].raised = NoError
            /\ \E c \in Callers : call[c].raised = "IntegrityError"
            /\ Cardinality(select_by_username(users, call[1].username)) = 1

\* Both calls, given different spellings of one username, have returned.
C10_Witness ==
    /\ BothDone
    /\ SameUsername
    /\ BothValid
    /\ call[1].username = <<"A", "d", "m", "i", "n">>
    /\ call[2].raised = NoError
    /\ call[1].raised = "IntegrityError"

(***************************************************************************)
(* set_password: the policy error and the boolean result.                  *)
(***************************************************************************)
\* C11 as stated: a set_password call with a password that violates the
\* policy raises the policy error and changes no row, whatever the username
\* is; with a compliant password it returns whether the trimmed username
\* has a row.
C11_Original ==
    \A u \in UsernameInputs, p \in PasswordInputs \cup {Valid_123}, s \in Salts :
       LET r == set_password(users, u, p, s)
           v == validate_password_rules(p)
       IN  IF ~v.ok
             THEN /\ r.raised = "ValueError"
                  /\ r.msg = v.msg
                  /\ r.users = users
           ELSE /\ r.raised = NoError
                /\ r.result = Bool(Exists(users, u))

\* C11: in every reachable table, a set_password call with a username that
\* is empty after trimming returns false without raising, whatever the
\* password is; with any other username a password that violates the policy
\* raises the policy error and a compliant one returns whether the trimmed
\* username has a row.  A call that raises or returns false changes no row,
\* in the table it is evaluated on and in every step that makes it.
C11_SetPasswordOutcome ==
    /\ [](\A u \in UsernameInputs, p \in PasswordInputs \cup {Valid_123},
             s \in Salts :
             LET r == set_password(users, u, p, s)
                 v == validate_password_rules(p)
             IN  IF strip(or_empty(u)) = <<>>
                   THEN /\ r.raised = NoError
                        /\ r.result = Bool(FALSE)
                        /\ r.users = users
                 ELSE IF ~v.ok
                   THEN /\ r.raised = "ValueError"
                        /\ r.msg = v.msg
                        /\ r.users = users
                 ELSE /\ r.raised = NoError
                      /\ r.result = Bool(Exists(users, u))
                      /\ ~Exists(users, u) => r.users = users)
    /\ [][ret'.op = "set_password" /\ ret'.result # Bool(TRUE) =>
             users' = users]_vars

\* A set_password call was refused with the policy error.
C11_Witness ==
    /\ ret.op = "set_password"
    /\ ret.raised = "ValueError"
    /\ ret.result = None

(***************************************************************************)
(* create_user: a rejected call writes nothing.                            *)
(***************************************************************************)
\* The input checks of create_user refuse the arguments.
Rejected(username, password, enforce_rules) ==
    \/ strip(or_empty(username)) = <<>>
    \/ enforce_rules /\ ~validate_password_rules(password).ok
    \/ hash_password_raises(password)

\* C12: in every reachable table, a create_user call whose username is
\* empty after trimming, whose password fails the policy while enforce_rules
\* is true, or whose password is empty or not a string raises ValueError and
\* leaves the table (and the id sequence) exactly as it was; and every step
\* that is a create_user call raising ValueError changes neither.
C12_RejectedCreateWritesNothing ==
    /\ [](\A u \in UsernameInputs, p \in PasswordInputs \cup {Valid_123},
             a \in BOOLEAN, e \in BOOLEAN, s \in Salts :
             Rejected(u, p, e) =>
               LET r == create_user(DB, u, p, a, e, s, now)
               IN  /\ r.raised = "ValueError"
                   /\ r.users = users
                   /\ r.seq = seq)
    /\ [][ret'.op = "create_user" /\ ret'.raised = "ValueError" =>
             users' = users /\ seq' = seq]_vars

\* A create_user call was rejected in a table that had grown beyond the seeds.
C12_Witness ==
    /\ ret.op = "create_user"
    /\ ret.raised = "ValueError"
    /\ Cardinality(users) > Len(seed_users)

(***************************************************************************)
(* The password policy as a function of the password alone: the caller     *)
(* holds one candidate password and asks validate_password_rules about it. *)
(***************************************************************************)
PolicyTail == 3

PolicyAlphabet == {"a", "A", "1", "!", "_", " "}

\* Candidates: nothing, five lowercase letters or five digits, followed by
\* up to PolicyTail characters of the alphabet; and None.
PolicyInputs ==
    {NoneVal} \cup
    {f \o t : f \in {<<>>, <<"a", "a", "a", "a", "a">>, <<"1", "1", "1", "1", "1">>},
              t \in UNION {[1..n -> PolicyAlphabet] : n \in 0..PolicyTail}}

InitPolicy ==
    /\ users = {}
    /\ seq = 0
    /\ now = 0
    /\ call \in {[password |-> p] : p \in PolicyInputs}
    /\ ret = Ret("input", None, NoError, 0, 0)
    /\ state = [user |-> None]
    /\ pc = <<>>
    /\ lock = 0
    /\ pending = <<>>

ValidatePasswordRules ==
    /\ ret.op = "input"
    /\ LET v == validate_password_rules(call.password)
       IN  ret' = Ret("validate_password_rules",
                      [kind |-> "Verdict", ok |-> v.ok, msg |-> v.msg],
                      NoError, 0, 0)
    /\ UNCHANGED <<users, seq, now, state, pc, call, lock, pending>>

NextPolicy == ValidatePasswordRules

SpecPolicy == InitPolicy /\ [][NextPolicy]_vars

\* C13: validate_password_rules accepts a string exactly when it has at
\* least 8 characters, a lowercase letter, an uppercase letter, a digit and
\* a character that is neither a letter, a digit nor whitespace (so an
\* underscore counts); for a rejected string the message is that of the
\* first of these five rules that fails.
C13_PolicyRules ==
    ret.op = "validate_password_rules" /\ isinstance_str(call.password) =>
      LET p == call.password
          special == \E i \in 1..Len(p) :
                        ~IsLower(p[i]) /\ ~IsUpper(p[i]) /\ ~IsDigit(p[i])
                        /\ ~IsSpace(p[i])
          first == IF Len(p) < 8
                     THEN "Password must be at least 8 characters."
                   ELSE IF ~search_lower(p)
                     THEN "Password must contain at least one lowercase letter."
                   ELSE IF ~search_upper(p)
                     THEN "Password must contain at least one uppercase letter."
                   ELSE IF ~search_digit(p)
                     THEN "Password must contain at least one digit."
                   ELSE IF ~special
                     THEN "Password must contain at least one special character (e.g., !@#$%)."
                   ELSE "OK"
      IN  /\ ret.result.ok = (first = "OK")
          /\ ret.result.msg = first

(***************************************************************************)
(* list_users: every row once, admins first, usernames ascending.          *)
(***************************************************************************)
\* C14: in every reachable table list_users returns a list with one entry
\* (username, is_admin) per row and no other entry, every admin entry before
\* every non-admin entry, and within each group the usernames in ascending
\* (byte-wise) order.
C14_ListUsers ==
    ret.op = "list_users" =>
      LET l == ret.result.rows
      IN  /\ Len(l) = Cardinality(users)
          /\ \A r \in users :
               Cardinality({i \in 1..Len(l) : l[i] = <<r.username, r.is_admin>>}) = 1
          /\ \A i \in 1..Len(l) :
               \E r \in users : l[i] = <<r.username, r.is_admin>>
          /\ \A i, j \in 1..Len(l) :
               i < j => /\ l[i][2] \/ ~l[j][2]
                        /\ l[i][2] = l[j][2] => binary_less(l[i][1], l[j][1])

\* A listing of a table with two admin accounts whose names differ in case
\* only, followed by the non-admin accounts.
C14_Witness ==
    /\ ret.op = "list_users"
    /\ Len(ret.result.rows) > Len(seed_users)
    /\ ret.result.rows[1] = <<(<<"A", "d", "m", "i", "n">>), TRUE>>
    /\ ret.result.rows[2] = <<admin, TRUE>>
    /\ ~ret.result.rows[3][2]

(***************************************************************************)
(* Bootstrap and the admin account.                                        *)
(***************************************************************************)
\* C15: right after every completed init_db at least one account has
\* is_admin true, and the account named admin exists and is an admin.
C15_AdminAfterBootstrap ==
    ret.op = "init_db" /\ ret.raised = NoError =>
      /\ \E r \in users : r.is_admin
      /\ \E r \in users : r.username = admin /\ r.is_admin

(***************************************************************************)
(* The menus of login_ui.py: one process, one session, one store.          *)
(***************************************************************************)
\* common.prompt: the line typed at the prompt, as input() returns it.
prompt(typed) == typed

\* .startswith("y")
startswith_y(s) == Len(s) > 0 /\ s[1] = "y"

TypedUsernames == {<<>>, admin, <<" ">> \o admin, <<"A", "d", "m", "i", "n">>}

TypedPasswords == {<<>>, Valid123, Valid_123, Admin123}

TypedAnswers == {<<>>, <<"Y">>}

\* The confirmation typed after password pw: the same text, or another.
TypedConfirm(pw) == {pw, IF pw = Valid123 THEN Admin123 ELSE Valid123}

\* What a menu prints before pause().
Printed(text) == [kind |-> "Printed", text |-> text]

\* startup_menu, choice "1": the identity authenticate returns, or None.
startup_menu_login(tbl, typed_username, typed_password) ==
    authenticate(tbl, prompt(typed_username), prompt(typed_password))

\* startup_menu, choice "2".
startup_menu_create(db, typed_username, typed_pw, typed_confirm, salt, clock) ==
    LET username == strip(prompt(typed_username))
        pw == prompt(typed_pw)
        v == validate_password_rules(pw)
        r == create_user(db, username, pw, FALSE, TRUE, salt, clock)
    IN  IF username = <<>>
          THEN Unchanged(db, NoError, "Username cannot be empty.")
        ELSE IF get_user_by_username(db.users, username) # None
          THEN Unchanged(db, NoError, "That username already exists. Try logging in.")
        ELSE IF ~v.ok
          THEN Unchanged(db, NoError, "Password rejected")
        ELSE IF prompt(typed_confirm) # pw
          THEN Unchanged(db, NoError, "Passwords do not match.")
        ELSE IF r.raised # NoError
          THEN Unchanged(db, NoError, "Could not create account")
        ELSE [r EXCEPT !.msg = "Account created successfully. Please log in now."]

change_own_password(db, user, typed_pw, typed_confirm, salt) ==
    LET new_pw == prompt(typed_pw)
        v == validate_password_rules(new_pw)
        r == set_password(db.users, user.username, new_pw, salt)
    IN  IF ~v.ok
          THEN Unchanged(db, NoError, "Password rejected")
        ELSE IF prompt(typed_confirm) # new_pw
          THEN Unchanged(db, NoError, "Passwords do not match.")
        ELSE IF r.raised # NoError
          THEN Unchanged(db, NoError, "Could not update password")
        ELSE [raised |-> NoError, msg |-> "Password updated successfully.",
              users |-> r.users, seq |-> db.seq]

\* admin_menu, choice "2", creating the account as bootstrap does: no policy
\* check in the menu and enforce_rules false.
admin_menu_add_bypass(db, typed_username, typed_pw, typed_answer, salt, clock) ==
    LET uname == prompt(typed_username)
        pw == prompt(typed_pw)
        adm == startswith_y(lower(prompt(typed_answer)))
        r == create_user(db, uname, pw, adm, FALSE, IF salt = 0 THEN 1 ELSE salt, clock)
    IN  IF r.raised # NoError
          THEN Unchanged(db, NoError, "Could not create user")
        ELSE [r EXCEPT !.msg = "User created."]

\* admin_menu, choice "2".
admin_menu_add(db, typed_username, typed_pw, typed_answer, salt, clock) ==
    LET uname == prompt(typed_username)
        pw == prompt(typed_pw)
        v == validate_password_rules(pw)
        adm == startswith_y(lower(prompt(typed_answer)))
        r == create_user(db, uname, pw, adm, TRUE, salt, clock)
    IN  IF ~v.ok
          THEN Unchanged(db, NoError, "Password rejected")
        ELSE IF r.raised # NoError
          THEN Unchanged(db, NoError, "Could not create user")
        ELSE [r EXCEPT !.msg = "User created."]

\* admin_menu, choice "3".
admin_menu_delete(db, user, typed_username) ==
    LET uname == prompt(typed_username)
        r == delete_user(db.users, uname)
    IN  IF uname = user.username
          THEN Unchanged(db, NoError,
                         "You cannot delete your own account while logged in.")
        ELSE [raised |-> NoError,
              msg |-> IF r.result = Bool(TRUE) THEN "Deleted." ELSE "No such user.",
              users |-> r.users, seq |-> db.seq]

\* admin_menu, choice "4".
admin_menu_reset(db, typed_username, typed_pw, salt) ==
    LET uname == prompt(typed_username)
        pw == prompt(typed_pw)
        r == set_password(db.users, uname, pw, salt)
    IN  IF r.raised # NoError
          THEN Unchanged(db, NoError, "Password rejected")
        ELSE [raised |-> NoError,
              msg |-> IF r.result = Bool(TRUE) THEN "Password updated."
                      ELSE "No such user.",
              users |-> r.users, seq |-> db.seq]

LoggedIn == state.user.kind = "User"

\* admin_menu returns at once unless the identity of the session is an admin.
InAdminMenu == LoggedIn /\ state.user.is_admin

ConcUnchanged == UNCHANGED <<pc, call, lock, pending>>

\* The menu ran on the store: its writes and what it printed.
MenuDid(op, r) ==
    /\ r.seq <= MaxId
    /\ users' = r.users
    /\ seq' = r.seq
    /\ ret' = Ret(op, Printed(r.msg), NoError, 0, 0)
    /\ UNCHANGED <<now, state>>
    /\ ConcUnchanged

\* Process start: bootstrap, then the startup menu with nobody logged in.
Startup ==
    /\ \E salts \in [SeedsMissing(users) -> Salts] :
         LET r == init_db(DB, salts, now)
         IN  /\ r.seq <= MaxId
             /\ users' = r.users
             /\ seq' = r.seq
             /\ ret' = Ret("init_db", None, r.raised, 0, 0)
    /\ state' = [user |-> None]
    /\ UNCHANGED now
    /\ ConcUnchanged

Login ==
    /\ ~LoggedIn
    /\ \E tu \in TypedUsernames, tp \in TypedPasswords :
         LET r == startup_menu_login(users, tu, tp)
         IN  /\ state' = [user |-> r.result]
             /\ ret' = Ret("startup_menu_login", r.result, NoError,
                           r.hashes, r.compares)
    /\ UNCHANGED <<users, seq, now>>
    /\ ConcUnchanged

Signup ==
    /\ ~LoggedIn
    /\ \E tu \in TypedUsernames, tp \in TypedPasswords :
       \E tc \in TypedConfirm(tp), s \in SaltsDrawn(tu, tp) :
         MenuDid("startup_menu_create",
                 startup_menu_create(DB, tu, tp, tc, s, now))

ChangeOwnPassword ==
    /\ LoggedIn
    /\ \E tp \in TypedPasswords :
       \E tc \in TypedConfirm(tp), s \in SaltsDrawn(state.user.username, tp) :
         MenuDid("change_own_password",
                 change_own_password(DB, state.user, tp, tc, s))

AdminList ==
    /\ InAdminMenu
    /\ ret' = Ret("admin_menu_list",
                  [kind |-> "List", rows |-> list_users(users)], NoError, 0, 0)
    /\ UNCHANGED <<users, seq, now, state>>
    /\ ConcUnchanged

AdminAdd ==
    /\ InAdminMenu
    /\ \E tu \in TypedUsernames, tp \in TypedPasswords, ta \in TypedAnswers :
       \E s \in SaltsDrawn(tu, tp) :
         MenuDid("admin_menu_add", admin_menu_add(DB, tu, tp, ta, s, now))

AdminDelete ==
    /\ InAdminMenu
    /\ \E tu \in TypedUsernames :
         MenuDid("admin_menu_delete", admin_menu_delete(DB, state.user, tu))

AdminReset ==
    /\ InAdminMenu
    /\ \E tu \in TypedUsernames, tp \in TypedPasswords :
       \E s \in SaltsDrawn(tu, tp) :
         MenuDid("admin_menu_reset", admin_menu_reset(DB, tu, tp, s))

NextUI ==
    \/ Startup
    \/ Login
    \/ Signup
    \/ ChangeOwnPassword
    \/ AdminList
    \/ AdminAdd
    \/ AdminDelete
    \/ AdminReset

SpecUI == Init /\ [][NextUI]_vars

(***************************************************************************)
(* The policy bypass and the passwords of the accounts.                    *)
(***************************************************************************)
\* C16: in every state reached through bootstrap, signup, admin add user,
\* change own password and admin reset password, the current password of
\* each account is the seed password of that seed username or a password
\* that validate_password_rules accepts.
C16_PasswordsSeedOrCompliant ==
    \A r \in users :
       \/ \E i \in 1..Len(seed_users) :
            /\ seed_users[i].username = r.username
            /\ seed_users[i].password = r.pw_hash.password
       \/ validate_password_rules(r.pw_hash.password).ok

\* An account made by signup, with a password that is not a seed password,
\* beside a seed account whose password was changed through a menu.
C16_Witness ==
    /\ \E r \in users : r.username \notin SeedNames /\ r.pw_hash.password = Valid123
    /\ \E r \in users : r.username = admin /\ r.pw_hash.password = Valid123

(***************************************************************************)
(* Salt and hash of a row.                                                 *)
(***************************************************************************)
\* The row of tbl with this id.
row_by_id(tbl, id) == CHOOSE r \in tbl : r.id = id

\* C17: in every reachable state the pw_hash of each row is the hash, under
\* the salt the row holds now, of the password last accepted for it: a
\* successful create_user(u, p) that drew salt s leaves the new row with salt
\* s and hash(p, s); a successful set_password(u, p) that drew salt s leaves
\* the row of u with salt s, the one drawn in this call, and hash(p, s); and
\* no other call changes the salt or the hash of a row.
C17_HashUnderCurrentSalt ==
    /\ [](\A r \in users : r.pw_hash = hash_password(r.pw_hash.password, r.salt))
    /\ [][/\ ret'.op = "set_password" /\ ret'.result = Bool(TRUE) =>
               \A u \in UsernameInputs, p \in PasswordInputs, s \in Salts :
                  IsSetPassword(u, p, s) =>
                    \A r \in select_by_username(users', strip(or_empty(u))) :
                       r.salt = s /\ r.pw_hash = hash_password(p, s)
          /\ ret'.op = "create_user" /\ ret'.raised = NoError =>
               \A u \in UsernameInputs, p \in PasswordInputs, s \in Salts :
                  IsCreate(u, p, TRUE, s) =>
                    \A r \in users' \ users :
                       r.salt = s /\ r.pw_hash = hash_password(p, s)
          /\ users' # users =>
               \A r \in users :
                  (\E n \in users' : n.id = r.id) =>
                    LET n == row_by_id(users', r.id)
                    IN  n.salt # r.salt \/ n.pw_hash # r.pw_hash =>
                          ret'.op = "set_password" /\ ret'.result = Bool(TRUE)]_vars

\* A set_password call has replaced the seed salt and password of admin.
C17_Witness ==
    /\ ret.op = "set_password"
    /\ ret.result = Bool(TRUE)
    /\ \E r \in users : /\ r.username = admin
                        /\ r.salt \notin {b.salt : b \in Bootstrapped.users}
                        /\ r.pw_hash = hash_password(Valid123, r.salt)

(***************************************************************************)
(* What a call leaves alone.                                               *)
(***************************************************************************)
\* C18: while an account exists its id, username, is_admin and created_at
\* stay what they were when it was created, whatever calls are made and
\* however the clock advances; a set_password call leaves every row other
\* than the one named as it was and changes at most salt and pw_hash of that
\* one; authenticate, get_user_by_username and list_users change nothing.
C18_Frame ==
    [][/\ users' # users =>
            \A r \in users, n \in users' :
               n.id = r.id \/ n.username = r.username =>
                 /\ n.id = r.id
                 /\ n.username = r.username
                 /\ n.is_admin = r.is_admin
                 /\ n.created_at = r.created_at
       /\ ret'.op = "set_password" =>
            /\ seq' = seq
            /\ {r.id : r \in users'} = {r.id : r \in users}
            /\ \A u \in UsernameInputs, p \in PasswordInputs, s \in Salts :
                 IsSetPassword(u, p, s) =>
                   \A r \in users : r.username # strip(or_empty(u)) => r \in users'
       /\ ret'.op \in {"authenticate", "get_user_by_username", "list_users"} =>
            users' = users /\ seq' = seq]_vars

\* A set_password call has changed the password of admin beside an account
\* created at a later time.
C18_Witness ==
    /\ ret.op = "set_password"
    /\ ret.result = Bool(TRUE)
    /\ \E r \in users : r.username = admin /\ r.pw_hash.password = Valid123
                        /\ r.created_at = 0
    /\ \E r \in users : r.created_at > 0

(***************************************************************************)
(* Usernames: trimmed, and compared case-sensitively.                      *)
(***************************************************************************)
\* str.swapcase()
swapcase(s) ==
    [i \in 1..Len(s) |->
        IF IsUpper(s[i]) THEN CodePoints[ord(s[i]) + (ord("a") - ord("A"))]
        ELSE IF IsLower(s[i]) THEN CodePoints[ord(s[i]) - (ord("a") - ord("A"))]
        ELSE s[i]]

\* u with whitespace around it.
Padded(u) == {u, <<" ">> \o u, u \o <<"\n">>, <<"\t", " ">> \o u \o <<" ", "\r">>}

\* Usernames that differ from u in letter case only.
CaseVariants(u) ==
    {swapcase(u), [i \in 1..Len(u) |-> IF i = 1 THEN swapcase(u)[i] ELSE u[i]]} \ {u}

\* C19: in every reachable table, every account u is the one found by
\* get_user_by_username, authenticate (with its password), set_password and
\* delete_user when they are given u with leading or trailing whitespace;
\* given a username that differs from u in letter case only, none of them
\* finds or touches the account u, and they find nothing unless that other
\* name has an account of its own; create_user with such a name, when it has
\* no account yet, succeeds and leaves both accounts in the table.
C19_TrimmedCaseSensitive ==
    \A r \in users :
       /\ \A w \in Padded(r.username) :
            /\ get_user_by_username(users, w) = User(r)
            /\ authenticate(users, w, r.pw_hash.password).result = User(r)
            /\ LET sp == set_password(users, w, Valid123, 1)
               IN  /\ sp.result = Bool(TRUE)
                   /\ sp.users = (users \ {r}) \cup
                        {[r EXCEPT !.salt = 1,
                                   !.pw_hash = hash_password(Valid123, 1)]}
            /\ delete_user(users, w).result = Bool(TRUE)
            /\ delete_user(users, w).users = users \ {r}
       /\ \A c \in CaseVariants(r.username) :
            LET taken == \E o \in users : o.username = c
                cr == create_user(DB, c, Valid123, FALSE, TRUE, 1, now)
            IN  /\ get_user_by_username(users, c) # User(r)
                /\ authenticate(users, c, r.pw_hash.password).result # User(r)
                /\ r \in set_password(users, c, Valid123, 1).users
                /\ r \in delete_user(users, c).users
                /\ ~taken =>
                     /\ get_user_by_username(users, c) = None
                     /\ authenticate(users, c, r.pw_hash.password).result = None
                     /\ set_password(users, c, Valid123, 1).result = Bool(FALSE)
                     /\ delete_user(users, c).result = Bool(FALSE)
                     /\ cr.raised = NoError
                     /\ r \in cr.users
                     /\ \E o \in cr.users : o.username = c /\ o.id # r.id

\* The account admin was found through a padded username while an account
\* Admin exists beside it.
C19_Witness ==
    /\ ret.op = "get_user_by_username"
    /\ ret.result.kind = "User"
    /\ ret.result.username = admin
    /\ \E r \in users : r.username = swapcase(<<"a">>) \o Tail(admin)
    /\ \E r \in users : r.username = admin /\ r.id = ret.result.id

InitBoot ==
    /\ \E gone \in SUBSET Bootstrapped.users :
         /\ gone # {}
         /\ users = Bootstrapped.users \ gone
    /\ seq = Bootstrapped.seq
    /\ now = 0
    /\ ret = Ret("init_db", None, NoError, 0, 0)
    /\ pc = [c \in Callers |-> "check"]
    /\ call = [c \in Callers |-> [i |-> 1, salt |-> 0, raised |-> NoError]]
    /\ lock = 0
    /\ pending = [c \in Callers |-> {}]
    /\ state = [user |-> None]

\* Line 98-99: the loop reaches seed i, or ends; get_user_by_username reads
\* the committed rows.
SeedCheck(c) ==
    /\ pc[c] = "check"
    /\ IF call[c].i > Len(seed_users)
         THEN /\ pc' = [pc EXCEPT ![c] = "done"]
              /\ UNCHANGED call
       ELSE IF get_user_by_username(users, seed_users[call[c].i].username) = None
         THEN /\ pc' = [pc EXCEPT ![c] = "insert"]
              /\ UNCHANGED call
       ELSE /\ call' = [call EXCEPT ![c].i = call[c].i + 1]
            /\ UNCHANGED pc
    /\ UNCHANGED <<users, seq, now, ret, state, lock, pending>>

\* Line 100, create_user lines 119-125: salt, hash and INSERT; an
\* IntegrityError leaves create_user and init_db, which catch nothing.
SeedInsert(c) ==
    /\ pc[c] = "insert"
    /\ write_lock_free(lock)
    /\ \E s \in Salts :
         LET sd == seed_users[call[c].i]
             r == create_user(DB, sd.username, sd.password, sd.is_admin, FALSE,
                              s, now)
         IN  IF r.raised = NoError
               THEN /\ pending' = [pending EXCEPT ![c] = r.users \ users]
                    /\ lock' = c
                    /\ pc' = [pc EXCEPT ![c] = "commit"]
                    /\ call' = [call EXCEPT ![c].salt = s]
               ELSE /\ call' = [call EXCEPT ![c].raised = r.raised]
                    /\ pc' = [pc EXCEPT ![c] = "done"]
                    /\ UNCHANGED <<lock, pending>>
    /\ UNCHANGED <<users, seq, now, ret, state>>

\* create_user line 126: conn.commit(); the loop goes on to the next seed.
SeedCommit(c) ==
    /\ pc[c] = "commit"
    /\ users' = users \cup pending[c]
    /\ seq' = seq + Cardinality(pending[c])
    /\ pending' = [pending EXCEPT ![c] = {}]
    /\ lock' = 0
    /\ pc' = [pc EXCEPT ![c] = "check"]
    /\ call' = [call EXCEPT ![c].i = call[c].i + 1]
    /\ UNCHANGED <<now, ret, state>>

NextBoot == \E c \in Callers : SeedCheck(c) \/ SeedInsert(c) \/ SeedCommit(c)

SpecBoot == InitBoot /\ [][NextBoot]_vars

\* C21: when two init_db calls have run concurrently on a table that lacked
\* some seed account, neither has raised an error and the table holds
\* exactly one row for each seed username.
C21_ConcurrentInitDb ==
    (\A c \in Callers : pc[c] = "done") =>
      /\ \A c \in Callers : call[c].raised = NoError
      /\ \A i \in 1..Len(seed_users) :
           Cardinality(select_by_username(users, seed_users[i].username)) = 1

(***************************************************************************)
(* Ids: unique, never reused, and the identity a session holds.            *)
(***************************************************************************)
\* C22: in every reachable state no two rows share an id and no id, in the
\* table or held by the session, exceeds the largest id ever assigned (seq);
\* every row that create_user or init_db would add now has an id greater
\* than every id assigned before and moves seq up to it, and so has the row
\* of any account deleted and created again now, under its old username; so
\* the identity a session holds never has the id of an account other than
\* the one that logged in.
C22_IdsNeverReused ==
    /\ \A r1 \in users, r2 \in users : r1.id = r2.id => r1 = r2
    /\ \A r \in users : r.id <= seq
    /\ \A u \in TypedUsernames, a \in BOOLEAN :
         LET cr == create_user(DB, u, Valid123, a, TRUE, 1, now)
         IN  /\ cr.seq >= seq
             /\ \A n \in cr.users \ users : n.id > seq /\ n.id <= cr.seq
    /\ LET boot == init_db(DB, [i \in 1..Len(seed_users) |-> 1], now)
       IN  /\ boot.seq >= seq
           /\ \A n \in boot.users \ users : n.id > seq /\ n.id <= boot.seq
    /\ \A r \in users :
         LET after == delete_user(users, r.username).users
             again == create_user([users |-> after, seq |-> seq],
                                  r.username, Valid123, r.is_admin, TRUE,
                                  1, now)
         IN  /\ again.raised = NoError
             /\ \A n \in again.users \ after :
                  n.id > seq /\ \A o \in users : n.id > o.id
    /\ LoggedIn =>
         /\ state.user.id <= seq
         /\ \A r \in users : r.id = state.user.id =>
              /\ r.username = state.user.username
              /\ r.is_admin = state.user.is_admin

\* The session holds the identity of an account that was deleted, and the
\* username has an account again, under a greater id.
C22_Witness ==
    /\ LoggedIn
    /\ \A r \in users : r.id # state.user.id
    /\ \E r \in users : r.username = state.user.username /\ r.id > state.user.id
====
